---- MODULE Spec2Model ----
(***************************************************************************)
(* A model of the gotcc TCC transaction coordinator (package txmanager),   *)
(* of the sample participant MockComponent (package example) and of the    *)
(* transaction log the coordinator consumes through the TXStore interface. *)
(*                                                                         *)
(* The coordinator and the sample participant are translated from their    *)
(* Go source.  The repository holds only the TXStore interface, so the     *)
(* store's operations follow the store contract of the specification.      *)
(***************************************************************************)
EXTENDS Naturals, Sequences, FiniteSets, TLC

VARIABLES
    txs,        \* store: tx id -> persisted Transaction record, or NoTx
    expired,    \* store/clock: tx id -> TRUE once now - CreatedAt > Timeout
    lockHolder, \* store: coordinator holding the store lock's lease, or NoOne
    mock,       \* participants: component id -> tx id -> the redis keys of MockComponent
    alive,      \* coordinator -> TRUE when the coordinator is deployed and running
    stopped,    \* coordinator -> TRUE once Stop() has cancelled its t.ctx
    registry,   \* coordinator -> the components map of its registryCenter, as
                \* the set of its entries [id, inst]
    call,       \* coordinator -> state of its Transaction call
    adv,        \* <<coordinator, kind>> -> state of an advanceProgress task
    rec,        \* coordinator -> state of its run() loop
    faults,     \* transient store/redis failures injected so far
    log         \* history: acks of Confirm/Cancel, breaches of the participant
                \* contract, TXSubmit calls, lapsed leases, the Register call refused last,
                \* the last call made on a component directly

vars == <<txs, expired, lockHolder, mock, alive, stopped, registry, call,
          adv, rec, faults, log>>

(***************************************************************************)
(* The universe of the model.                                              *)
(***************************************************************************)
Coords == {"c1", "c2"}
Comps == {"A", "B"}
TXIDs == {"t1"}
\* request sets a caller may pass to Transaction; "C" is never registered
Requests == {<<>>, <<"A", "B">>, <<"A", "A">>, <<"A", "C">>}
MaxFaults == 1
\* component objects that may carry the same id
MaxInstances == 2
Instances == 1..MaxInstances
Component(id, inst) == [id |-> id, inst |-> inst]
\* the ids a registry holds
Ids(reg) == {e.id : e \in reg}
\* Options.MonitorTick after repair, in seconds
MonitorTick == 10

NoTx == [status |-> "none"]
NoOne == "none"
Kinds == {"detached", "recovery"}

Range(s) == {s[i] : i \in 1..Len(s)}

(***************************************************************************)
(* Transaction.getStatus (option.go): the status derived from a record.    *)
(* before stands for t.CreatedAt.Before(createdBefore), that is            *)
(* now - CreatedAt > Timeout.                                              *)
(***************************************************************************)
RECURSIVE getStatusLoop(_, _, _, _)
getStatusLoop(comps, tries, i, hangingExist) ==
    IF i > Len(comps)
    THEN IF hangingExist THEN "hanging" ELSE "successful"
    ELSE IF tries[comps[i]] = "failure"
         THEN "failure"
         ELSE getStatusLoop(comps, tries, i + 1,
                            hangingExist \/ tries[comps[i]] # "successful")

\* a variant that takes a try still HANGING for a successful one
getStatus_HangingAsSuccessful(tx, before) ==
    IF before \/ \E p \in Range(tx.comps) : tx.tries[p] = "failure"
    THEN "failure" ELSE "successful"

getStatus(tx, before) ==
    IF before THEN "failure" ELSE getStatusLoop(tx.comps, tx.tries, 1, FALSE)

(***************************************************************************)
(* The store contract (TXStore interface, txstore.go).  The records.       *)
(***************************************************************************)
CreateTXRec(comps) ==
    [status |-> "hanging", comps |-> comps,
     tries |-> [p \in Range(comps) |-> "hanging"]]

\* tx_update: sets the participant's try status; never regresses a settled one
TXUpdateRec(tx, p, accept) ==
    IF tx.tries[p] = "hanging"
    THEN [tx EXCEPT !.tries[p] = IF accept THEN "successful" ELSE "failure"]
    ELSE tx

\* tx_submit fails on a record already in the opposite terminal state
TXSubmitOk(tx, success) ==
    tx.status \in {"hanging", IF success THEN "successful" ELSE "failure"}

TXSubmitRec(tx, success) ==
    IF TXSubmitOk(tx, success)
    THEN [tx EXCEPT !.status = IF success THEN "successful" ELSE "failure"]
    ELSE tx

GetHangingTXs == {t \in TXIDs : txs[t].status = "hanging"}

FreeTXIDs == {t \in TXIDs : txs[t] = NoTx}

(***************************************************************************)
(* MockComponent (package example): one call's possible outcomes on the    *)
(* keys k = [txKey, detail, data] the component keeps for a transaction:   *)
(* BuildTXKey, BuildTXDetailKey (TRUE when set) and BuildDataKey.          *)
(* An outcome is [ack, err, st, fault, breach]: the response, the keys     *)
(* afterwards, whether a redis call failed on the way (a transient         *)
(* failure), and whether the component left the participant contract: an  *)
(* acked Confirm that a Cancel can still undo, a Cancel that fails or      *)
(* keeps the reservation although the transaction is not confirmed.        *)
(***************************************************************************)
NoKeys == [txKey |-> "", detail |-> FALSE, data |-> ""]

Replied(ack, k) ==
    [ack |-> ack, err |-> FALSE, st |-> k, fault |-> FALSE, breach |-> FALSE]
\* an error the component returns on its own (redis ErrNil, illegal state)
Refused(k) ==
    [ack |-> FALSE, err |-> TRUE, st |-> k, fault |-> FALSE, breach |-> FALSE]
\* an error returned because a redis call (or the tx lock) failed
Failed(k) ==
    [ack |-> FALSE, err |-> TRUE, st |-> k, fault |-> TRUE, breach |-> FALSE]

TryOutcomes(k) ==
    {Failed(k)} \cup
    IF k.txKey \in {"tried", "confirmed"} THEN {Replied(TRUE, k)}
    ELSE IF k.txKey = "canceled" THEN {Replied(FALSE, k)}
    ELSE LET k1 == [k EXCEPT !.detail = TRUE]
             k2 == [k1 EXCEPT !.data = "frozen"]
         IN  {Failed(k1)} \cup
             IF k.data # "" THEN {Replied(FALSE, k1)}
             ELSE {Failed(k2), Replied(TRUE, [k2 EXCEPT !.txKey = "tried"])}

ConfirmOutcomes(k) ==
    {Failed(k)} \cup
    IF k.txKey = "" THEN {Refused(k)}
    ELSE IF k.txKey = "confirmed" THEN {Replied(TRUE, k)}
    ELSE IF k.txKey # "tried" THEN {Replied(FALSE, k)}
    ELSE IF ~k.detail \/ k.data = "" THEN {Refused(k)}
    ELSE IF k.data # "frozen" THEN {Replied(FALSE, k)}
    ELSE LET k1 == [k EXCEPT !.data = "successful"]
         IN  {Replied(TRUE, [k1 EXCEPT !.txKey = "confirmed"]),
              \* the last Set's failure is ignored: the reply is still an ack
              [ack |-> TRUE, err |-> FALSE, st |-> k1, fault |-> TRUE,
               breach |-> TRUE]}

CancelOutcomes(k) ==
    {Failed(k)} \cup
    IF k.txKey = "confirmed" THEN {Refused(k)}
    ELSE LET k1 == [k EXCEPT !.data = ""]
         IN  \* Get of the detail key: ErrNil is returned as an error,
             (IF ~k.detail THEN {[Refused(k) EXCEPT !.breach = TRUE]}
              ELSE {Failed(k1), Replied(TRUE, [k1 EXCEPT !.txKey = "canceled"])})
             \* any other error is ignored and the frozen data is kept
             \cup {[ack |-> TRUE, err |-> FALSE,
                    st |-> [k EXCEPT !.txKey = "canceled"], fault |-> TRUE,
                    breach |-> k.data # ""]}

(***************************************************************************)
(* TXManager.getComponents: validation of a request set against the        *)
(* registry reg; the error it returns ("" for none).                       *)
(***************************************************************************)
RECURSIVE repeatLoop(_, _, _)
repeatLoop(reqs, i, idToReq) ==
    IF i > Len(reqs) THEN FALSE
    ELSE IF reqs[i] \in idToReq THEN TRUE
    ELSE repeatLoop(reqs, i + 1, idToReq \cup {reqs[i]})

\* registryCenter.getComponents: fails on the first id not registered
registryGetComponents(reg, ids) ==
    IF \E i \in 1..Len(ids) : ids[i] \notin Ids(reg) THEN "not existed" ELSE ""

\* a variant without the check for repeated ids
getComponents_NoRepeat(reqs, reg) ==
    IF Len(reqs) = 0 THEN "empty task" ELSE registryGetComponents(reg, reqs)

getComponents(reqs, reg) ==
    IF Len(reqs) = 0 THEN "empty task"
    ELSE IF repeatLoop(reqs, 1, {}) THEN "repeat component"
    ELSE registryGetComponents(reg, reqs)

(***************************************************************************)
(* Contexts.  Transaction derives tctx (WithTimeout) from the caller's ctx *)
(* and hands twoPhaseCommit a context from which cctx is derived.          *)
(***************************************************************************)
\* the context Transaction passes to twoPhaseCommit (line 166)
twoPhaseCommitCtx == "ctx"

\* the error twoPhaseCommit returns beside successful (line 407)
twoPhaseCommitErr(successful) == FALSE

\* a failure may strike a call when the budget allows, or its context is done
\* (cctx for the calls of phase 1, t.ctx for those of an advance and of run())
MayFail(ctxDone) == ctxDone \/ faults < MaxFaults
Spend(ctxDone) == IF ctxDone THEN faults ELSE faults + 1

\* the history before anything has happened
NoLog ==
    [acks |-> {}, breaches |-> {}, submits |-> {}, lapsed |-> {}, refused |-> {},
     last |-> [op |-> "", p |-> "", t |-> "", pre |-> NoKeys,
               out |-> Replied(FALSE, NoKeys)]]

IdleCall ==
    [pc |-> "idle", reqs |-> <<>>, known |-> {}, tx |-> "", gr |-> <<>>,
     tctxDone |-> FALSE, cctxDone |-> FALSE, success |-> FALSE, err |-> FALSE]

NewGoroutine == [pc |-> "try", tryOk |-> FALSE, updOk |-> FALSE]

\* why: what held in the store when the task derived the status (history)
NoWhy == [expired |-> FALSE, failure |-> FALSE]
\* trail: the components this advance has called, with their answers (history)
IdleTask ==
    [pc |-> "idle", snap |-> NoTx, op |-> "", idx |-> 0, why |-> NoWhy,
     trail |-> <<>>]

Tasks == Coords \X Kinds \X TXIDs

(***************************************************************************)
(* TXManager.Transaction up to CreateTX.                                   *)
(***************************************************************************)
\* the call begins: tctx is created and getComponents validates the requests
Transaction(c, reqs) ==
    /\ alive[c] /\ call[c].pc = "idle"
    /\ LET e == getComponents(reqs, registry[c])
       IN  /\ e = "" => FreeTXIDs # {}
           /\ call' = [call EXCEPT ![c] =
                  [@ EXCEPT !.reqs = reqs, !.known = registry[c],
                            !.pc = IF e = "" THEN "create" ELSE "returned",
                            !.err = e # ""]]
    /\ UNCHANGED <<txs, expired, lockHolder, mock, alive, stopped, registry, adv, rec,
                   faults, log>>

\* txStore.CreateTX(tctx, ...) and the start of the Try goroutines
CreateTX(c) ==
    /\ alive[c] /\ call[c].pc = "create"
    /\ \/ /\ MayFail(call[c].tctxDone)
          /\ faults' = Spend(call[c].tctxDone)
          /\ call' = [call EXCEPT ![c].pc = "returned", ![c].err = TRUE]
          /\ UNCHANGED txs
       \/ \E t \in FreeTXIDs :
          /\ txs' = [txs EXCEPT ![t] = CreateTXRec(call[c].reqs)]
          /\ call' = [call EXCEPT ![c].pc = "phase1", ![c].tx = t,
                         ![c].gr = [p \in Range(call[c].reqs) |-> NewGoroutine]]
          /\ UNCHANGED faults
    /\ UNCHANGED <<expired, lockHolder, mock, alive, stopped, registry, adv, rec, log>>

\* the deadline of tctx passes: tctx and the contexts derived from it are done
DeadlineExpire(c) ==
    /\ call[c].pc \in {"create", "phase1"} /\ ~call[c].tctxDone
    /\ call' = [call EXCEPT ![c].tctxDone = TRUE,
                   ![c].cctxDone = @ \/ twoPhaseCommitCtx = "tctx"]
    /\ UNCHANGED <<txs, expired, lockHolder, mock, alive, stopped, registry, adv, rec,
                   faults, log>>

(***************************************************************************)
(* TXManager.twoPhaseCommit: one goroutine per component, and the fan-in.  *)
(***************************************************************************)
Running(c) == alive[c] /\ call[c].pc \in {"phase1", "returned"} /\ call[c].tx # ""

\* componentEntity.Component.Try(cctx, ...) returns
TryCall(c, p) ==
    /\ Running(c) /\ p \in DOMAIN call[c].gr /\ call[c].gr[p].pc = "try"
    /\ \E o \in TryOutcomes(mock[p][call[c].tx]) :
          /\ o.fault => MayFail(call[c].cctxDone)
          /\ faults' = IF o.fault THEN Spend(call[c].cctxDone) ELSE faults
          /\ mock' = [mock EXCEPT ![p][call[c].tx] = o.st]
          /\ call' = [call EXCEPT ![c].gr[p] =
                         [@ EXCEPT !.pc = "update", !.tryOk = ~o.err /\ o.ack]]
    /\ UNCHANGED <<txs, expired, lockHolder, alive, stopped, registry, adv, rec, log>>

\* a variant that does not report a failed TXUpdate
afterTXUpdate_TryOnly(tryOk, updOk) == IF tryOk THEN "done" ELSE "send"

\* where a goroutine goes after txStore.TXUpdate(cctx, txID, id, tryOk)
afterTXUpdate(tryOk, updOk) == IF tryOk /\ updOk THEN "done" ELSE "send"

\* txStore.TXUpdate(cctx, ...) returns; a failed Try or update then blocks on errCh
TXUpdateCall(c, p) ==
    /\ Running(c) /\ p \in DOMAIN call[c].gr /\ call[c].gr[p].pc = "update"
    /\ LET g == call[c].gr[p]
           t == call[c].tx
       IN  \/ /\ MayFail(call[c].cctxDone)
              /\ faults' = Spend(call[c].cctxDone)
              /\ call' = [call EXCEPT ![c].gr[p] =
                             [@ EXCEPT !.pc = afterTXUpdate(g.tryOk, FALSE)]]
              /\ UNCHANGED txs
           \/ /\ txs' = [txs EXCEPT ![t] = TXUpdateRec(@, p, g.tryOk)]
              /\ call' = [call EXCEPT ![c].gr[p] =
                             [@ EXCEPT !.pc = afterTXUpdate(g.tryOk, TRUE),
                                       !.updOk = TRUE]]
              /\ UNCHANGED faults
    /\ UNCHANGED <<expired, lockHolder, mock, alive, stopped, registry, adv, rec, log>>

\* the value the fan-in receives from errCh: an error of a blocked sender, or
\* nil once every goroutine is done and the channel is closed
Senders(c) == {p \in DOMAIN call[c].gr : call[c].gr[p].pc = "send"}
AllDone(c) == \A p \in DOMAIN call[c].gr : call[c].gr[p].pc = "done"

StartTask == [IdleTask EXCEPT !.pc = "get"]

\* err := <-errCh; cancel(); go advanceProgressByTXID(txID); return
twoPhaseReturn(c, sender) ==
    LET successful == sender = ""
    IN  /\ call' = [call EXCEPT
               ![c].pc = "returned",
               ![c].success = successful,
               ![c].err = twoPhaseCommitErr(successful),
               ![c].cctxDone = TRUE,
               ![c].gr = IF sender = "" THEN @
                         ELSE [@ EXCEPT ![sender].pc = "done"]]
        /\ adv' = [adv EXCEPT ![<<c, "detached", call[c].tx>>] = StartTask]

TwoPhaseCommitReturn(c) ==
    /\ alive[c] /\ call[c].pc = "phase1"
    /\ \/ \E p \in Senders(c) : twoPhaseReturn(c, p)
       \/ AllDone(c) /\ twoPhaseReturn(c, "")
    /\ UNCHANGED <<txs, expired, lockHolder, mock, alive, stopped, registry, rec,
                   faults, log>>

(***************************************************************************)
(* TXManager.advanceProgressByTXID and advanceProgress.  A task is one     *)
(* run of advanceProgress for a transaction: the detached one dispatched   *)
(* by twoPhaseCommit, or one of batchAdvanceProgress's goroutines.         *)
(***************************************************************************)
\* how a task ends: batchAdvanceProgress collects a goroutine's error, while the
\* result of the detached go advanceProgressByTXID(txID) is dropped
finish(k, result) == IF k = "detached" THEN "done" ELSE result

AnyFailure(tx) == \E p \in DOMAIN tx.tries : tx.tries[p] = "failure"
AllSuccessful(tx) == \A p \in DOMAIN tx.tries : tx.tries[p] = "successful"

\* a variant in which the advance runs under the context of twoPhaseCommit
advanceCtxDone_Caller(c) == call[c].cctxDone

\* whether the context of an advance's calls is done: they are made with
\* t.ctx, which only Stop cancels
advanceCtxDone(c) == stopped[c]

\* txStore.GetTX(t.ctx, txID) returns
AdvGetTX(c, t) ==
    LET id == <<c, "detached", t>>
    IN  /\ alive[c] /\ adv[id].pc = "get"
        /\ \/ /\ MayFail(advanceCtxDone(c)) /\ faults' = Spend(advanceCtxDone(c))
              /\ adv' = [adv EXCEPT ![id].pc = finish("detached", "err")]
           \/ /\ adv' = [adv EXCEPT ![id].pc = "derive", ![id].snap = txs[t]]
              /\ UNCHANGED faults
        /\ UNCHANGED <<txs, expired, lockHolder, mock, alive, stopped, registry, call,
                       rec, log>>

\* a variant with the two branches exchanged
confirmOrCancel_Inverted(txStatus) ==
    IF txStatus = "successful" THEN "cancel" ELSE "confirm"

\* the phase-2 operation advanceProgress selects for a derived status
confirmOrCancel(txStatus) == IF txStatus = "successful" THEN "confirm" ELSE "cancel"

\* tx.getStatus(time.Now().Add(-Timeout)) and the choice of the operation
AdvDerive(c, k, t) ==
    LET id == <<c, k, t>>
        txStatus == getStatus(adv[id].snap, expired[t])
    IN  /\ alive[c] /\ adv[id].pc = "derive"
        /\ adv' = [adv EXCEPT ![id] =
               IF txStatus = "hanging" THEN [@ EXCEPT !.pc = finish(k, "ok")]
               ELSE [@ EXCEPT !.pc = "act", !.op = confirmOrCancel(txStatus),
                              !.idx = 1,
                              !.why = [expired |-> expired[t],
                                       failure |-> AnyFailure(txs[t])]]]
        /\ UNCHANGED <<txs, expired, lockHolder, mock, alive, stopped, registry, call,
                       rec, faults, log>>

Outcomes(op, k) == IF op = "confirm" THEN ConfirmOutcomes(k) ELSE CancelOutcomes(k)

\* a variant that goes on to the next component whatever the response
afterResponse_Continue(o, idx, n) == IF idx = n THEN "submit" ELSE "act"

\* where the loop over tx.Components goes after one component's response
afterResponse(o, idx, n) ==
    IF o.err \/ ~o.ack THEN "err" ELSE IF idx = n THEN "submit" ELSE "act"

\* one iteration of the loop: registry lookup, then Confirm or Cancel
AdvAct(c, k, t) ==
    LET id == <<c, k, t>>
        a == adv[id]
        p == a.snap.comps[a.idx]
    IN  /\ alive[c] /\ a.pc = "act"
        /\ IF registryGetComponents(registry[c], <<p>>) # ""
           THEN /\ adv' = [adv EXCEPT ![id].pc = finish(k, "err")]
                /\ UNCHANGED <<mock, faults, log>>
           ELSE \E o \in Outcomes(a.op, mock[p][t]) :
                /\ o.fault => MayFail(advanceCtxDone(c))
                /\ faults' = IF o.fault THEN Spend(advanceCtxDone(c)) ELSE faults
                /\ mock' = [mock EXCEPT ![p][t] = o.st]
                /\ log' = [log EXCEPT
                       !.acks = IF o.ack /\ ~o.err THEN @ \cup {<<p, t, a.op>>}
                                ELSE @,
                       !.breaches = IF o.breach THEN @ \cup {<<p, t>>} ELSE @]
                /\ LET to == afterResponse(o, a.idx, Len(a.snap.comps))
                   IN  adv' = [adv EXCEPT
                           ![id].pc = IF to = "err" THEN finish(k, "err") ELSE to,
                           ![id].idx = IF to = "act" THEN a.idx + 1 ELSE a.idx,
                           ![id].trail = Append(@, [p |-> p,
                                                    ok |-> o.ack /\ ~o.err])]
        /\ UNCHANGED <<txs, expired, lockHolder, alive, stopped, registry, call, rec>>

\* txStore.TXSubmit(t.ctx, txID, success) returns
AdvSubmit(c, k, t) ==
    LET id == <<c, k, t>>
        success == adv[id].op = "confirm"
    IN  /\ alive[c] /\ adv[id].pc = "submit"
        /\ \/ /\ MayFail(advanceCtxDone(c)) /\ faults' = Spend(advanceCtxDone(c))
              /\ adv' = [adv EXCEPT ![id].pc = finish(k, "err")]
              /\ UNCHANGED <<txs, log>>
           \/ /\ txs' = [txs EXCEPT ![t] = TXSubmitRec(@, success)]
              /\ adv' = [adv EXCEPT ![id].pc =
                     finish(k, IF TXSubmitOk(txs[t], success) THEN "ok" ELSE "err")]
              /\ log' = [log EXCEPT !.submits = @ \cup
                            {[tx |-> t, success |-> success,
                              allSuccessful |-> AllSuccessful(txs[t]),
                              why |-> adv[id].why]}]
              /\ UNCHANGED faults
        /\ UNCHANGED <<expired, lockHolder, mock, alive, stopped, registry, call, rec>>

(***************************************************************************)
(* TXManager.run, the recovery loop, and batchAdvanceProgress.             *)
(***************************************************************************)
\* a variant without the threshold
backOffTick_Unbounded(tick) == tick * 2

\* TXManager.backOffTick: the wait doubled, at most 8 times MonitorTick
backOffTick(tick) ==
    LET doubled == tick * 2
        threshold == MonitorTick * 8
    IN  IF doubled > threshold THEN threshold ELSE doubled

\* the top of the loop: the wait before the next tick
nextTick(err, tick) == IF ~err THEN MonitorTick ELSE backOffTick(tick)

\* a variant that never takes the case of t.ctx.Done()
afterSelect_NeverDone(done) == "tick"

\* the case the select of run() takes: t.ctx.Done() once t.ctx is done, else
\* time.After(tick)
afterSelect(done) == IF done THEN "return" ELSE "tick"

\* a variant that scans whether or not the lock was taken
afterLock_Always(locked) == "scan"

\* where run() goes after txStore.Lock returned
afterLock(locked) == IF locked THEN "scan" ELSE "wait"

\* time.After(tick) fires and txStore.Lock(t.ctx, MonitorTick) returns
RunLock(c) ==
    /\ alive[c] /\ rec[c].pc = "wait" /\ afterSelect(stopped[c]) = "tick"
    /\ LET locked == lockHolder = NoOne
       IN  /\ lockHolder' = IF locked THEN c ELSE lockHolder
           /\ log' = IF locked THEN [log EXCEPT !.lapsed = @ \ {c}] ELSE log
           /\ rec' = [rec EXCEPT ![c] =
                  IF afterLock(locked) = "scan" THEN [@ EXCEPT !.pc = "scan"]
                  ELSE [pc |-> "wait", err |-> FALSE,
                        tick |-> nextTick(FALSE, @.tick)]]
    /\ UNCHANGED <<txs, expired, mock, alive, stopped, registry, call, adv, faults>>

RecoveryTask(t) == [IdleTask EXCEPT !.pc = "derive", !.snap = txs[t]]

Batch(c) == {id \in Tasks : id[1] = c /\ id[2] = "recovery"}

\* a variant that starts over without calling Unlock
RunUnlock_Skipped(c, err) ==
    /\ UNCHANGED lockHolder
    /\ rec' = [rec EXCEPT ![c] = [pc |-> "wait", err |-> err,
                                  tick |-> nextTick(err, @.tick)]]

\* txStore.Unlock(t.ctx) returns (its error is ignored: with t.ctx done the
\* lock may stay held) and the loop starts over with err, the error of this tick
RunUnlock(c, err) ==
    /\ \/ lockHolder' = IF lockHolder = c THEN NoOne ELSE lockHolder
       \/ stopped[c] /\ UNCHANGED lockHolder
    /\ rec' = [rec EXCEPT ![c] = [pc |-> "wait", err |-> err,
                                  tick |-> nextTick(err, @.tick)]]

\* txStore.GetHangingTXs(t.ctx) returns: with an error, and run() unlocks and
\* continues; or with the hanging records, and the batch's goroutines start
RunGetHangingTXs(c) ==
    /\ alive[c] /\ rec[c].pc = "scan"
    /\ \/ /\ MayFail(stopped[c]) /\ faults' = Spend(stopped[c])
          /\ RunUnlock(c, TRUE)
          /\ UNCHANGED adv
       \/ /\ rec' = [rec EXCEPT ![c].pc = "batch"]
          /\ adv' = [id \in Tasks |->
                 IF id \in Batch(c) /\ id[3] \in GetHangingTXs
                 THEN RecoveryTask(id[3]) ELSE adv[id]]
          /\ UNCHANGED <<faults, lockHolder>>
    /\ UNCHANGED <<txs, expired, mock, alive, stopped, registry, call, log>>

\* batchAdvanceProgress returns the first error once every goroutine is done,
\* and run() unlocks
RunBatchDone(c) ==
    /\ alive[c] /\ rec[c].pc = "batch"
    /\ \A id \in Batch(c) : adv[id].pc \in {"idle", "ok", "err"}
    /\ RunUnlock(c, \E id \in Batch(c) : adv[id].pc = "err")
    /\ adv' = [id \in Tasks |-> IF id \in Batch(c) THEN IdleTask ELSE adv[id]]
    /\ UNCHANGED <<txs, expired, mock, alive, stopped, registry, call, faults, log>>

\* <-t.ctx.Done(): run() returns
RunReturn(c) ==
    /\ alive[c] /\ rec[c].pc = "wait" /\ afterSelect(stopped[c]) = "return"
    /\ rec' = [rec EXCEPT ![c].pc = "returned"]
    /\ UNCHANGED <<txs, expired, lockHolder, mock, alive, stopped, registry,
                   call, adv, faults, log>>

\* TXManager.Stop: t.stop() cancels t.ctx; cancelling again changes nothing
Stop(c) ==
    /\ alive[c]
    /\ stopped' = [stopped EXCEPT ![c] = TRUE]
    /\ UNCHANGED <<txs, expired, lockHolder, mock, alive, registry, call, adv,
                   rec, faults, log>>

(***************************************************************************)
(* The registry, and the environment: time and the lock's lease.           *)
(***************************************************************************)
\* a variant that replaces the component registered under the id
register_Overwrite(reg, comp) == {e \in reg : e.id # comp.id} \cup {comp}

\* registryCenter.register: the map after the call; an id already present is
\* refused with "repeat component id" and the map stays as it is
register(reg, comp) == IF comp.id \in Ids(reg) THEN reg ELSE reg \cup {comp}

registerErr(reg, comp) == comp.id \in Ids(reg)

\* TXManager.Register(component) returns
Register(c, comp) ==
    /\ alive[c]
    /\ registry' = [registry EXCEPT ![c] = register(@, comp)]
    /\ log' = IF registerErr(registry[c], comp)
              THEN [log EXCEPT !.refused = {<<c, comp>>}]
              ELSE log
    /\ UNCHANGED <<txs, expired, lockHolder, mock, alive, stopped, call, adv,
                   rec, faults>>

\* the transaction becomes older than Timeout; the call that created it began
\* before CreatedAt, so its tctx deadline has passed as well
TimeoutElapse(t) ==
    /\ txs[t] # NoTx /\ ~expired[t]
    /\ expired' = [expired EXCEPT ![t] = TRUE]
    /\ call' = [c \in Coords |->
           IF call[c].tx = t /\ call[c].pc = "phase1"
           THEN [call[c] EXCEPT !.tctxDone = TRUE,
                     !.cctxDone = @ \/ twoPhaseCommitCtx = "tctx"]
           ELSE call[c]]
    /\ UNCHANGED <<txs, lockHolder, mock, alive, stopped, registry, adv, rec, faults,
                   log>>

\* the lease of the store lock (MonitorTick) runs out while it is held
LeaseExpire ==
    /\ lockHolder # NoOne
    /\ lockHolder' = NoOne
    /\ log' = [log EXCEPT !.lapsed = @ \cup {lockHolder}]
    /\ UNCHANGED <<txs, expired, mock, alive, stopped, registry, call, adv, rec, faults>>

(***************************************************************************)
(* The specifications.  Components A and B are registered with every       *)
(* coordinator before the first call; callers use coordinator c1.          *)
(*   Spec     one coordinator, with transient store and redis failures     *)
(*   SpecPair two coordinators on one store                                *)
(*   SpecTwo  SpecPair where the store lock's lease may run out while the  *)
(*            lock is held                                                 *)
(*   SpecStop one coordinator, which may be stopped; no other failures     *)
(*   SpecLive Spec under the scheduling the Go runtime, the timers and     *)
(*            live participants and store provide: every goroutine that    *)
(*            can take its next step eventually does, and time passes      *)
(***************************************************************************)
InitFrom(deployed, budget, components) ==
    /\ txs = [t \in TXIDs |-> NoTx]
    /\ expired = [t \in TXIDs |-> FALSE]
    /\ lockHolder = NoOne
    /\ mock = [p \in Comps |-> [t \in TXIDs |-> NoKeys]]
    /\ alive = [c \in Coords |-> c \in deployed]
    /\ stopped = [c \in Coords |-> FALSE]
    /\ registry = [c \in Coords |-> components]
    /\ call = [c \in Coords |-> IF c = "c1" THEN IdleCall
                                ELSE [IdleCall EXCEPT !.pc = "off"]]
    /\ adv = [id \in Tasks |-> IdleTask]
    /\ rec = [c \in Coords |-> [pc |-> "wait", err |-> FALSE, tick |-> MonitorTick]]
    /\ faults = MaxFaults - budget
    /\ log = NoLog

\* the callers have registered A and B before the first Transaction
InitWith(deployed, budget) ==
    InitFrom(deployed, budget, {Component(p, 1) : p \in Comps})

Init == InitWith({"c1"}, MaxFaults)

InitTwo == InitWith(Coords, 0)

Next ==
    \/ \E c \in Coords, reqs \in Requests : Transaction(c, reqs)
    \/ \E c \in Coords : CreateTX(c)
    \/ \E c \in Coords : DeadlineExpire(c)
    \/ \E c \in Coords, p \in Comps : TryCall(c, p)
    \/ \E c \in Coords, p \in Comps : TXUpdateCall(c, p)
    \/ \E c \in Coords : TwoPhaseCommitReturn(c)
    \/ \E c \in Coords, t \in TXIDs : AdvGetTX(c, t)
    \/ \E c \in Coords, k \in Kinds, t \in TXIDs : AdvDerive(c, k, t)
    \/ \E c \in Coords, k \in Kinds, t \in TXIDs : AdvAct(c, k, t)
    \/ \E c \in Coords, k \in Kinds, t \in TXIDs : AdvSubmit(c, k, t)
    \/ \E c \in Coords : RunLock(c)
    \/ \E c \in Coords : RunGetHangingTXs(c)
    \/ \E c \in Coords : RunBatchDone(c)
    \/ \E t \in TXIDs : TimeoutElapse(t)

NextTwo ==
    \/ Next
    \/ LeaseExpire

Spec == Init /\ [][Next]_vars

SpecPair == InitTwo /\ [][Next]_vars

SpecTwo == InitTwo /\ [][NextTwo]_vars

NextStop ==
    \/ Next
    \/ \E c \in Coords : Stop(c)
    \/ \E c \in Coords : RunReturn(c)

InitStop == InitWith({"c1"}, 0)

SpecStop == InitStop /\ [][NextStop]_vars

\* two coordinators sharing the store, and a bounded number of failures
InitBackoff == InitWith(Coords, MaxFaults)
SpecBackoff == InitBackoff /\ [][Next]_vars

\* the components alone: callers invoke Try, Confirm and Cancel of the
\* registered components directly, in any order, and a bounded number of
\* redis calls fail
Respond(op, p, t, o) ==
    /\ o.fault => faults < MaxFaults
    /\ faults' = IF o.fault THEN faults + 1 ELSE faults
    /\ mock' = [mock EXCEPT ![p][t] = o.st]
    /\ log' = [log EXCEPT !.last = [op |-> op, p |-> p, t |-> t,
                                    pre |-> mock[p][t], out |-> o]]
    /\ UNCHANGED <<txs, expired, lockHolder, alive, stopped, registry, call,
                   adv, rec>>

Try(p, t) == \E o \in TryOutcomes(mock[p][t]) : Respond("try", p, t, o)
Confirm(p, t) == \E o \in ConfirmOutcomes(mock[p][t]) : Respond("confirm", p, t, o)
Cancel(p, t) == \E o \in CancelOutcomes(mock[p][t]) : Respond("cancel", p, t, o)

InitMock == InitFrom({}, MaxFaults, {Component(p, 1) : p \in Comps})
NextMock ==
    \/ \E p \in Comps, t \in TXIDs : Try(p, t)
    \/ \E p \in Comps, t \in TXIDs : Confirm(p, t)
    \/ \E p \in Comps, t \in TXIDs : Cancel(p, t)
SpecMock == InitMock /\ [][NextMock]_vars

\* the registries alone: two fresh coordinators, and callers that register
\* components under the ids A, B and C, several component objects per id
Registrable == {Component(id, i) : id \in Comps \cup {"C"}, i \in Instances}
InitRegistry == InitFrom(Coords, 0, {})
NextRegistry == \E c \in Coords, comp \in Registrable : Register(c, comp)
SpecRegistry == InitRegistry /\ [][NextRegistry]_vars

Fairness ==
    /\ \A c \in Coords :
          /\ WF_vars(CreateTX(c))
          /\ WF_vars(TwoPhaseCommitReturn(c))
          /\ WF_vars(RunLock(c))
          /\ WF_vars(RunGetHangingTXs(c))
          /\ WF_vars(RunBatchDone(c))
          /\ \A p \in Comps : WF_vars(TryCall(c, p)) /\ WF_vars(TXUpdateCall(c, p))
          /\ \A t \in TXIDs :
                /\ WF_vars(AdvGetTX(c, t))
                /\ \A k \in Kinds :
                      /\ WF_vars(AdvDerive(c, k, t))
                      /\ WF_vars(AdvAct(c, k, t))
                      /\ WF_vars(AdvSubmit(c, k, t))
    /\ \A t \in TXIDs : WF_vars(TimeoutElapse(t))

SpecLive == Init /\ [][Next]_vars /\ Fairness

(***************************************************************************)
(* The claims.                                                             *)
(***************************************************************************)
Acked(p, t, op) == <<p, t, op>> \in log.acks

\* C1: for no transaction has one participant acknowledged a Confirm while
\* another participant of it has acknowledged a Cancel.
C1_Atomicity ==
    \A t \in TXIDs : \A p, q \in Comps :
        p # q => ~(Acked(p, t, "confirm") /\ Acked(q, t, "cancel"))

Returned(c) == call[c].pc = "returned"
\* the call got past validation and CreateTX, into twoPhaseCommit
InPhases(c) == call[c].tx # ""
TryAccepted(c) ==
    /\ InPhases(c)
    /\ \A p \in Range(call[c].reqs) :
          call[c].gr[p].tryOk /\ call[c].gr[p].updOk

\* C2: Transaction returns success = true exactly when every participant's
\* Try acked without error and every TXUpdate(.., true) succeeded, and then
\* the store records SUCCESSFUL for every participant of the transaction.
C2_SuccessIffAllAccepted ==
    \A c \in Coords : Returned(c) =>
        /\ call[c].success <=> TryAccepted(c)
        /\ call[c].success =>
              \A p \in Range(call[c].reqs) :
                  txs[call[c].tx].tries[p] = "successful"

C2_Witness == \E c \in Coords : Returned(c) /\ call[c].success

\* C3: when Transaction returns success = false because a Try was refused or
\* failed, or a TXUpdate failed, the error it returns is not nil.
C3_FailureReturnsError ==
    \A c \in Coords :
        Returned(c) /\ InPhases(c) /\ ~call[c].success => call[c].err

\* C4: once Timeout has elapsed since the call began, the context of a Try
\* that has not returned is cancelled.
C4_TryCancelledAfterTimeout ==
    \A c \in Coords :
        (/\ call[c].pc = "phase1" /\ call[c].tctxDone
         /\ \E p \in DOMAIN call[c].gr : call[c].gr[p].pc = "try")
        => call[c].cctxDone

Terminal(t) == txs[t].status \in {"successful", "failure"}
Breached(t) == \E p \in Comps : <<p, t>> \in log.breaches

\* C5: every transaction persisted as HANGING is eventually driven to a
\* terminal status by a recovery loop, unless one of its participants left
\* the participant contract.
C5_RecoveryLiveness ==
    \A t \in TXIDs : (txs[t].status = "hanging") ~> (Terminal(t) \/ Breached(t))

\* the request sets the specification rules out: empty, a repeated id, an id
\* that is not registered
InvalidRequest(reqs, reg) ==
    \/ Len(reqs) = 0
    \/ \E i, j \in 1..Len(reqs) : i # j /\ reqs[i] = reqs[j]
    \/ \E i \in 1..Len(reqs) : \A e \in reg : e.id # reqs[i]

Untouched ==
    /\ \A t \in TXIDs : txs[t] = NoTx
    /\ \A p \in Comps, t \in TXIDs : mock[p][t] = NoKeys
    /\ \A id \in Tasks : adv[id].pc = "idle"
    /\ log.acks = {} /\ log.submits = {}

\* C6: a call with an invalid request set returns an error, and the store,
\* the participants and the phase-2 tasks are as they were: nothing was
\* created, tried, updated or advanced.
C6_ValidationBeforeEffects ==
    \A c \in Coords :
        call[c].pc \notin {"idle", "off"}
        /\ InvalidRequest(call[c].reqs, call[c].known)
        => /\ Returned(c) /\ ~call[c].success /\ call[c].err
           /\ ~InPhases(c)
           /\ Untouched

C6_Witness ==
    \E c \in Coords : Returned(c) /\ call[c].reqs = <<"A", "A">> /\ call[c].err

\* C7: whenever TXSubmit(tx, true) is called, the store already records
\* SUCCESSFUL for every participant of tx.
C7_SubmitTrueAfterAllSuccessful ==
    \A s \in log.submits : s.success => s.allSuccessful

C7_Witness == \E s \in log.submits : s.success

\* C8: whenever TXSubmit(tx, false) is called, then when the advance derived
\* the status tx was older than Timeout or the store recorded FAILURE for one
\* of its participants.
C8_SubmitFalseAfterFailureOrTimeout ==
    \A s \in log.submits : ~s.success => s.why.expired \/ s.why.failure

C8_Witness == \E s \in log.submits : ~s.success /\ ~s.why.expired

InAdvance(c, t) ==
    \E k \in Kinds : adv[<<c, k, t>>].pc \in {"get", "derive", "act", "submit"}

\* C9: no two coordinators are inside a phase-2 advance of the same
\* transaction at the same time.
C9_AdvanceSerialized ==
    \A t \in TXIDs : \A c, d \in Coords :
        c # d => ~(InAdvance(c, t) /\ InAdvance(d, t))

\* between a successful txStore.Lock and the matching txStore.Unlock
InScan(c) == rec[c].pc \in {"scan", "batch"}

\* C10 as stated: at most one coordinator is between a successful Lock and
\* its Unlock.
C10_ScanMutex ==
    \A c, d \in Coords : InScan(c) /\ InScan(d) => c = d

\* C10, amended: a coordinator is between Lock and Unlock only if it holds
\* the store lock or held it until its lease ran out, so at most one
\* coordinator is there within its lease; a failed Lock starts no scan.
C10_ScanMutexWithinLease ==
    /\ \A c \in Coords : InScan(c) /\ c \notin log.lapsed => lockHolder = c
    /\ \A c, d \in Coords :
          InScan(c) /\ InScan(d) /\ c # d => c \in log.lapsed \/ d \in log.lapsed

C10_Witness ==
    \E c, d \in Coords : c # d /\ InScan(c) /\ InScan(d) /\ lockHolder = d

\* the advance has had a Confirm or a Cancel acknowledged, or is at TXSubmit
Issued(id) ==
    \/ adv[id].pc = "submit"
    \/ adv[id].pc = "act" /\ adv[id].idx > 1

\* C11: an advance that read a record whose persisted status is terminal
\* issues no Confirm, no Cancel and no TXSubmit.
C11_TerminalReplayNoOp ==
    \A id \in Tasks :
        adv[id].snap.status \in {"successful", "failure"} => ~Issued(id)

SubmittedTrue(t) == \E s \in log.submits : s.tx = t /\ s.success

\* C12: once Transaction has returned success = true for a transaction,
\* TXSubmit(tx, true) is eventually performed for it, unless a store or
\* participant call has failed.
C12_HappyPath ==
    \A c \in Coords :
        (Returned(c) /\ call[c].success)
            ~> (SubmittedTrue(call[c].tx) \/ faults > 0)

C14_RegistryAppendOnly ==
    /\ [](\A c \in Coords : \A e, f \in registry[c] : e.id = f.id => e = f)
    /\ [][\A c \in Coords :
            /\ registry[c] \subseteq registry'[c]
            /\ log'.refused # log.refused => registry'[c] = registry[c]]_vars

\* a component was refused because another one holds its id, and it is absent
C14_Witness ==
    \E c \in Coords, comp \in Registrable :
        /\ <<c, comp>> \in log.refused
        /\ comp \notin registry[c]
        /\ \E e \in registry[c] : e.id = comp.id

\* what a component answers to op in state k when no redis call fails
Answers(op, k) ==
    {o \in (IF op = "try" THEN TryOutcomes(k) ELSE Outcomes(op, k)) : ~o.fault}

\* C15: a Cancel that reaches a component before any Try of the transaction
\* has succeeded there (and no redis call fails) is acknowledged and leaves
\* the component cancelled, and from then on a Try is answered with ack=false
\* and reserves nothing.
C15_Tombstone ==
    LET l == log.last
        k == mock[l.p][l.t]
    IN  l.op = "cancel" /\ l.pre.txKey = "" /\ ~l.out.fault =>
            /\ l.out.ack /\ ~l.out.err
            /\ k.txKey = "canceled"
            /\ \A o \in Answers("try", k) : ~o.ack /\ ~o.err /\ o.st = k

\* C16: repeating the call just answered gives the same answer and changes
\* nothing: a Try after a Try that was answered returns the same ack, a
\* Confirm after an acknowledged Confirm and a Cancel after an acknowledged
\* Cancel return ack=true, and the component's state stays as it is.
C16_Idempotent ==
    LET l == log.last
        k == mock[l.p][l.t]
    IN  l.op # "" /\ ~l.out.err /\ (l.op = "try" \/ l.out.ack) =>
            \A o \in Answers(l.op, k) :
                ~o.err /\ o.ack = l.out.ack /\ o.st = k

\* C17: for every stored record, at every age, Transaction.getStatus gives
\* the status of the rule table: FAILURE when the record is older than
\* Timeout and its stored status is not SUCCESSFUL; else FAILURE when a try
\* status is FAILURE; else HANGING when a try status is HANGING; else
\* SUCCESSFUL.
C17_StatusRuleTable ==
    \A t \in TXIDs : \A before \in {expired[t], FALSE} :
        txs[t] # NoTx =>
            getStatus(txs[t], before) =
                LET tx == txs[t]
                    tries == {tx.tries[p] : p \in Range(tx.comps)}
                IN  IF before /\ tx.status # "successful" THEN "failure"
                    ELSE IF "failure" \in tries THEN "failure"
                    ELSE IF "hanging" \in tries THEN "hanging"
                    ELSE "successful"

\* C18: an advance calls the components of the record in stored order, one
\* after the other; a Confirm or Cancel that returns an error or ack=false is
\* the last call of the advance, which ends without TXSubmit; the advance
\* reaches TXSubmit only when every component of the record has acknowledged
\* in this advance.
C18_SequentialAllOrRetry ==
    \A id \in Tasks :
        LET a == adv[id]
            n == Len(a.trail)
        IN  a.snap # NoTx =>
                /\ n <= Len(a.snap.comps)
                /\ \A j \in 1..n : a.trail[j].p = a.snap.comps[j]
                /\ \A j \in 1..(n - 1) : a.trail[j].ok
                /\ n > 0 /\ ~a.trail[n].ok => a.pc \in {"err", "done"}
                /\ a.pc = "submit" =>
                       /\ n = Len(a.snap.comps)
                       /\ \A j \in 1..n : a.trail[j].ok

\* an advance ended at a first component that did not acknowledge, with the
\* second one not called
C18_Witness ==
    \E id \in Tasks :
        /\ adv[id].pc \in {"err", "done"}
        /\ Len(adv[id].trail) = 1 /\ ~adv[id].trail[1].ok
        /\ Len(adv[id].snap.comps) = 2

\* C19: when Transaction has returned false after CreateTX, the advance that
\* twoPhaseCommit dispatched reads a record in which a try status is FAILURE,
\* and it goes on to Cancel the components.
C19_FailureObserved ==
    \A c \in Coords :
        Returned(c) /\ InPhases(c) /\ ~call[c].success =>
            LET a == adv[<<c, "detached", call[c].tx>>]
            IN  a.snap # NoTx =>
                    /\ AnyFailure(a.snap)
                    /\ a.pc # "derive" => a.op = "cancel"

\* the tick a loop is in ended with an error: GetHangingTXs failed, or an
\* advance of the batch returned an error
TickFailed(c) ==
    \/ rec[c].pc = "scan"
    \/ rec[c].pc = "batch" /\ \E id \in Batch(c) : adv[id].pc = "err"

\* C20: the wait before a tick is MonitorTick, 2, 4 or 8 times MonitorTick;
\* when a loop comes back to its wait, the new wait is MonitorTick if the tick
\* found the lock held or ended without error, and the smaller of twice the
\* previous wait and 8 times MonitorTick if GetHangingTXs or an advance
\* returned an error.
C20_Backoff ==
    /\ [](\A c \in Coords :
            rec[c].tick \in {MonitorTick * m : m \in {1, 2, 4, 8}})
    /\ [][\A c \in Coords :
            rec'[c].pc = "wait" /\ rec'[c] # rec[c] =>
                rec'[c].tick =
                    IF rec[c].pc = "wait" \/ ~TickFailed(c) THEN MonitorTick
                    ELSE IF 2 * rec[c].tick < 8 * MonitorTick
                         THEN 2 * rec[c].tick ELSE 8 * MonitorTick]_vars

\* a loop waits 8 times MonitorTick after a failed tick
C20_Witness ==
    \E c \in Coords :
        rec[c].pc = "wait" /\ rec[c].err /\ rec[c].tick = 8 * MonitorTick

\* C21: a loop that took the store lock calls Unlock before it waits for its
\* next tick, after a failed GetHangingTXs as after the batch: the step that
\* brings the loop from its scan back to the wait releases the lock the loop
\* holds, and no loop waits while it holds the lock.
C21_UnlockBeforeWait ==
    /\ [](\A c \in Coords : rec[c].pc = "wait" => lockHolder # c)
    /\ [][\A c \in Coords :
            InScan(c) /\ rec'[c].pc = "wait" =>
                lockHolder' = IF lockHolder = c THEN NoOne ELSE lockHolder]_vars

\* a loop is back at its wait after a tick in which GetHangingTXs failed (no
\* transaction exists whose advance could have failed), and the lock is free
C21_Witness ==
    \E c \in Coords :
        /\ rec[c].pc = "wait" /\ rec[c].err
        /\ \A t \in TXIDs : txs[t] = NoTx
        /\ lockHolder = NoOne

\* C22: the advance that twoPhaseCommit dispatches is not started before
\* Transaction returns and is not aborted by the contexts of the call, which
\* are cancelled at the return: with the coordinator running and no failure
\* of the store, its GetTX returns the record, and once every component has
\* acknowledged its TXSubmit is stored.
C22_Detached ==
    \A c \in Coords :
        InPhases(c) =>
            LET a == adv[<<c, "detached", call[c].tx>>]
            IN  /\ ~Returned(c) => a.pc = "idle"
                /\ Returned(c) /\ a.pc = "done" =>
                       /\ a.snap # NoTx
                       /\ (/\ Len(a.trail) = Len(a.snap.comps)
                           /\ \A j \in 1..Len(a.trail) : a.trail[j].ok)
                          => \E sub \in log.submits :
                                /\ sub.tx = call[c].tx
                                /\ sub.success = (a.op = "confirm")

\* Transaction has returned and its contexts are cancelled while the advance
\* is still on its way, past GetTX and one Confirm
C22_Witness ==
    \E c \in Coords :
        /\ Returned(c) /\ InPhases(c) /\ call[c].cctxDone
        /\ LET a == adv[<<c, "detached", call[c].tx>>]
           IN  a.pc = "act" /\ a.op = "confirm" /\ Len(a.trail) = 1

\* an advance of t has called op on a component
Called(t, op) ==
    \/ \E p \in Comps : Acked(p, t, op)
    \/ \E id \in Tasks :
          id[3] = t /\ adv[id].op = op /\ Len(adv[id].trail) > 0

SubmittedFalse(t) == \E s \in log.submits : s.tx = t /\ ~s.success

\* C23: once an advance has called Confirm for a transaction, no advance
\* calls Cancel for it or submits it as FAILURE; and a transaction for which
\* Transaction returned true is never submitted as FAILURE.
C23_DecisionStable ==
    /\ \A t \in TXIDs :
          Called(t, "confirm") => ~Called(t, "cancel") /\ ~SubmittedFalse(t)
    /\ \A c \in Coords :
          Returned(c) /\ call[c].success => ~SubmittedFalse(call[c].tx)

\* the goroutine of component p in the call of c is at its send on errCh
Sending(c, p) ==
    InPhases(c) /\ p \in DOMAIN call[c].gr /\ call[c].gr[p].pc = "send"

\* C24: no goroutine of phase 1 stays blocked: a goroutine that has an
\* error to report, its Try and TXUpdate calls having returned, eventually
\* terminates, however many of its siblings fail.
C24_NoBlockedSender ==
    \A c \in Coords : \A p \in Comps :
        Sending(c, p) ~> (p \in DOMAIN call[c].gr /\ call[c].gr[p].pc = "done")

====
